---- MODULE Spec2Model ----
(***************************************************************************)
(* Resumable chunked upload engine of bigfile-chunk-uploader.              *)
(*                                                                         *)
(* The module models ChunkManager (the chunk table and the hasher),        *)
(* ConcurrentStrategy (scheduler and session controller) and               *)
(* BigFileUploader.start.  The transport (NetworkClient) is the            *)
(* environment: each request is in flight until an action delivers its     *)
(* response, success or failure chosen nondeterministically.               *)
(*                                                                         *)
(* JavaScript runs one handler at a time.  Each action below is one        *)
(* handler run from the event that resumes it to the next await: a caller  *)
(* call (start, pause, resume, abort), a file read completing, a timer     *)
(* firing, a transport response arriving.  Handlers are written as         *)
(* operators on a record holding the fields of the objects; the action     *)
(* commits the record the handler returns.  A request cancelled through    *)
(* its AbortSignal rejects in the microtasks that follow the abort() call, *)
(* before any other event is handled, so the caller action that fires the  *)
(* signal also runs the rejection handlers of the requests holding it, in  *)
(* the order the requests were issued.                                     *)
(***************************************************************************)
EXTENDS Integers, Sequences, FiniteSets, TLC

\* ---------------------------------------------------------------- bounds
\* The file uploaded by the engine specification.
FileSize == 5
ChunkSize == 2
\* options.concurrent and options.maxRetries of the engine specification.
Concurrent == 2
MaxRetries == 2
\* How many times the environment disturbs the upload: the calls of pause(),
\* resume() and abort(), the chunk uploads and file reads that fail, and the
\* byte-progress events of the transport, all counted together.
MaxInputs == 3
\* Ranges of the chunk table specification.
MaxFileSize == 12
MaxChunkSize == 5

\* Byte-progress percentages the transport reports for an in-flight chunk.
ByteProgress == {50, 100}

\* resume() starts a chain only when paused, so after a pause() of its own.
MaxChains == MaxInputs \div 2

NULL == "null"
Digest == "sha256"
ServerUploadId == "u1"

VARIABLES
  fileSize, chunkSize,      \* ChunkManager.file.size, ChunkManager.chunkSize
  chunks,                   \* ChunkManager.chunks
  fileHash,                 \* ChunkManager.fileHash
  hashOffset,               \* calculateFileHash: offset
  hashCalculated,           \* ConcurrentStrategy fields
  lastReportedProgress,
  activeConnections,
  paused,
  aborted,
  abortController,          \* 0 = null, k > 0 = the k-th AbortController
  pendingChunks,            \* sequences of chunk indices (references to chunks)
  retryQueue,
  uploadId,
  chains,                   \* chain 0: execute(); chain k > 0: k-th resume()
  nResume,
  inflight,                 \* uploadChunk requests awaiting settlement, oldest first
  nInputs,                  \* disturbances so far (see MaxInputs)
  reported,                 \* indices a progress query of resume() has reported uploaded
  events,                   \* callbacks invoked by the last handler, in order
  progressBefore,           \* last value onProgress was given by earlier handlers
  tablePc,                  \* chunk table specification: "new" | "built" | "hashing"
  returned                  \* chunk table specification: the last call and its result

vars == <<fileSize, chunkSize, chunks, fileHash, hashOffset, hashCalculated,
          lastReportedProgress, activeConnections, paused, aborted,
          abortController, pendingChunks, retryQueue, uploadId, chains,
          nResume, inflight, nInputs, reported, events,
          progressBefore, tablePc, returned>>

\* ------------------------------------------------------------ arithmetic
Min(a, b) == IF a < b THEN a ELSE b
Max(a, b) == IF a > b THEN a ELSE b

\* Math.round(num / den * 100), den > 0 (round half up).
RoundPercent(num, den) == (200 * num + den) \div (2 * den)

\* Math.floor(num / den * 100), den > 0.
FloorPercent(num, den) == (100 * num) \div den

\* the chunks kept by a filter, as indices (references) in table order
IndicesOf(kept) == [k \in 1..Len(kept) |-> kept[k].index]

SeqToSet(q) == {q[k] : k \in 1..Len(q)}

\* ----------------------------------------------------------- ChunkManager
RECURSIVE prepareLoopNoClamp(_, _, _, _, _)
\* _prepareChunks with end = start + chunkSize, not clamped to the file size
prepareLoopNoClamp(size, csize, start, index, acc) ==
  IF start < size
  THEN LET end == start + csize
       IN prepareLoopNoClamp(size, csize, end, index + 1,
                             Append(acc, [index |-> index, start |-> start, end |-> end,
                                          status |-> "pending", retries |-> 0]))
  ELSE acc

RECURSIVE prepareLoop(_, _, _, _, _)
\* _prepareChunks: the while loop
prepareLoop(size, csize, start, index, acc) ==
  IF start < size
  THEN LET end == Min(start + csize, size)
       IN prepareLoop(size, csize, end, index + 1,
                      Append(acc, [index |-> index, start |-> start, end |-> end,
                                   status |-> "pending", retries |-> 0]))
  ELSE acc

prepareChunks(size, csize) == prepareLoop(size, csize, 0, 0, <<>>)

\* getPendingChunks without the exclusion test
getPendingChunksAll(cs, excludeIndices) ==
  IndicesOf(SelectSeq(cs, LAMBDA c : c.status = "pending"))

\* excludeIndices is an array of indices
getPendingChunks(cs, excludeIndices) ==
  IndicesOf(SelectSeq(cs, LAMBDA c : c.status = "pending"
                                      /\ c.index \notin SeqToSet(excludeIndices)))

getCompletedIndices(cs) ==
  IndicesOf(SelectSeq(cs, LAMBDA c : c.status = "completed"))

getChunksToRetry(cs, maxRetries) ==
  IndicesOf(SelectSeq(cs, LAMBDA c : c.status = "failed" /\ c.retries < maxRetries))

\* updateChunkStatus counting every status change as a retry
updateChunkStatusCountsAll(cs, index, status) ==
  [k \in 1..Len(cs) |->
     IF cs[k].index = index /\ (\A j \in 1..(k - 1) : cs[j].index # index)
     THEN [cs[k] EXCEPT !.status = status, !.retries = @ + 1]
     ELSE cs[k]]

updateChunkStatus(cs, index, status) ==
  [k \in 1..Len(cs) |->
     IF cs[k].index = index /\ (\A j \in 1..(k - 1) : cs[j].index # index)
     THEN [cs[k] EXCEPT !.status = status,
                        !.retries = IF status = "failed" THEN @ + 1 ELSE @]
     ELSE cs[k]]

getProgress(cs) == RoundPercent(Len(getCompletedIndices(cs)), Len(cs))

\* chunk.retries read through the reference held by a queue or an upload
RetriesOf(cs, index) ==
  LET hit == {k \in 1..Len(cs) : cs[k].index = index}
  IN IF hit = {} THEN 0 ELSE cs[CHOOSE k \in hit : TRUE].retries

\* ------------------------------------------------- the engine as a record
Cur ==
  [chunks |-> chunks, fileHash |-> fileHash, hashOffset |-> hashOffset,
   hashCalculated |-> hashCalculated,
   lastReportedProgress |-> lastReportedProgress,
   activeConnections |-> activeConnections, paused |-> paused,
   aborted |-> aborted, abortController |-> abortController,
   pendingChunks |-> pendingChunks, retryQueue |-> retryQueue,
   uploadId |-> uploadId, chains |-> chains, nResume |-> nResume,
   inflight |-> inflight, nInputs |-> nInputs, reported |-> reported,
   events |-> events, progressBefore |-> progressBefore]

ProgressValues(evs) ==
  LET ps == SelectSeq(evs, LAMBDA e : e.cb = "onProgress")
  IN [k \in 1..Len(ps) |-> ps[k].v]

\* The record a handler starts from: it has invoked no callback yet, and
\* progressBefore is the last value onProgress was given before it.
Begin ==
  LET ps == ProgressValues(events)
  IN [Cur EXCEPT !.events = <<>>,
                 !.progressBefore = IF ps = <<>> THEN progressBefore ELSE ps[Len(ps)]]

\* The record the handler of a disturbance starts from.
Input == [Begin EXCEPT !.nInputs = @ + 1]

\* A handler that changes no field and invokes no callback is a stuttering
\* step: events keeps the callbacks of the last handler that did something.
NoEffect(s) ==
  /\ s.events = <<>>
  /\ [s EXCEPT !.progressBefore = progressBefore] = [Cur EXCEPT !.events = <<>>]

Assign(s) ==
  /\ chunks' = s.chunks
  /\ fileHash' = s.fileHash
  /\ hashOffset' = s.hashOffset
  /\ hashCalculated' = s.hashCalculated
  /\ lastReportedProgress' = s.lastReportedProgress
  /\ activeConnections' = s.activeConnections
  /\ paused' = s.paused
  /\ aborted' = s.aborted
  /\ abortController' = s.abortController
  /\ pendingChunks' = s.pendingChunks
  /\ retryQueue' = s.retryQueue
  /\ uploadId' = s.uploadId
  /\ chains' = s.chains
  /\ nResume' = s.nResume
  /\ inflight' = s.inflight
  /\ nInputs' = s.nInputs
  /\ reported' = s.reported
  /\ events' = s.events
  /\ progressBefore' = s.progressBefore
  /\ UNCHANGED <<fileSize, chunkSize, tablePc, returned>>

Commit(s) == IF NoEffect(s) THEN UNCHANGED vars ELSE Assign(s)

\* options.onProgress / onChunkSuccess / onSuccess / onError
Emit(s, cb, v, msg) ==
  [s EXCEPT !.events = Append(@, [cb |-> cb, v |-> v, msg |-> msg])]

onProgress(s, v) == Emit(s, "onProgress", v, "")
onChunkSuccess(s, index) == Emit(s, "onChunkSuccess", index, "")
onSuccess(s, c, how) ==
  [Emit(s, "onSuccess", c, how) EXCEPT !.chains[c].nSuccess = @ + 1]
onError(s, c, msg) ==
  [Emit(s, "onError", c, msg) EXCEPT !.chains[c].nError = @ + 1]

SetPc(s, c, pc) == [s EXCEPT !.chains[c].pc = pc]

\* ------------------------------------------------- ConcurrentStrategy
cleanup(s) ==
  [s EXCEPT !.abortController = 0, !.pendingChunks = <<>>, !.retryQueue = <<>>]

\* handleUploadError dropping every error
handleUploadErrorSwallows(s, c, msg) == s

handleUploadError(s, c, msg) ==
  IF s.aborted THEN s ELSE onError(s, c, msg)

prepareUploadQueue(s) ==
  LET completedIndices == getCompletedIndices(s.chunks)
  IN [s EXCEPT !.pendingChunks = getPendingChunks(s.chunks, completedIndices)
                                   \o getChunksToRetry(s.chunks, MaxRetries)]

\* canStartNewConnection admitting an upload at the limit (<= for <)
canStartNewConnectionAtLimit(s) ==
  /\ s.activeConnections <= Concurrent
  /\ (Len(s.pendingChunks) > 0 \/ Len(s.retryQueue) > 0)

canStartNewConnection(s) ==
  /\ s.activeConnections < Concurrent
  /\ (Len(s.pendingChunks) > 0 \/ Len(s.retryQueue) > 0)

\* shouldContinueProcessing without the aborted test
shouldContinueProcessingIgnoresAbort(s) ==
  /\ ~s.paused
  /\ (Len(s.pendingChunks) > 0 \/ Len(s.retryQueue) > 0 \/ s.activeConnections > 0)

shouldContinueProcessing(s) ==
  /\ ~s.paused
  /\ ~s.aborted
  /\ (Len(s.pendingChunks) > 0 \/ Len(s.retryQueue) > 0 \/ s.activeConnections > 0)

\* getNextChunk serving the pending queue first
getNextChunkPendingFirst(s) ==
  IF Len(s.pendingChunks) > 0
  THEN <<Head(s.pendingChunks), [s EXCEPT !.pendingChunks = Tail(@)]>>
  ELSE <<Head(s.retryQueue), [s EXCEPT !.retryQueue = Tail(@)]>>

\* retryQueue.shift() || pendingChunks.shift(): <<chunk, state after the shift>>
getNextChunk(s) ==
  IF Len(s.retryQueue) > 0
  THEN <<Head(s.retryQueue), [s EXCEPT !.retryQueue = Tail(@)]>>
  ELSE <<Head(s.pendingChunks), [s EXCEPT !.pendingChunks = Tail(@)]>>

\* calculateFileHashWithProgress: the callback given to calculateFileHash
hashProgressCallback(s, progress) ==
  IF ~s.paused
  THEN LET overallProgress == progress \div 5
           safeProgress == Max(s.lastReportedProgress, overallProgress)
       IN IF safeProgress > s.lastReportedProgress
          THEN onProgress([s EXCEPT !.lastReportedProgress = safeProgress], safeProgress)
          ELSE s
  ELSE s

updateChunkProgress(s, chunkProgress) ==
  IF Len(s.chunks) = 0 THEN onProgress(s, 0)
  ELSE LET completedChunks == Len(getCompletedIndices(s.chunks))
           totalChunks == Len(s.chunks)
           \* floor(20 + completed/total*80 + chunkProgress/100 * 80/total)
           overallProgress ==
             20 + (400 * completedChunks + 4 * chunkProgress) \div (5 * totalChunks)
           safeProgress == Max(s.lastReportedProgress, Min(100, overallProgress))
       IN onProgress([s EXCEPT !.lastReportedProgress = safeProgress], safeProgress)

updateBaseProgress(s) ==
  IF s.fileHash = NULL \/ Len(s.chunks) = 0 THEN onProgress(s, 0)
  ELSE LET completedChunks == Len(getCompletedIndices(s.chunks))
           totalChunks == Len(s.chunks)
           progress == 20 + (completedChunks * 80) \div totalChunks
           safeProgress == Max(s.lastReportedProgress, progress)
       IN onProgress([s EXCEPT !.lastReportedProgress = safeProgress], safeProgress)

updateProgress(s) ==
  IF s.fileHash = NULL \/ Len(s.chunks) = 0 THEN onProgress(s, 0)
  ELSE LET completedProgress == getProgress(s.chunks)
           \* floor(20 + completedProgress * 0.8)
           overallProgress == 20 + (completedProgress * 4) \div 5
           safeProgress == Max(0, Min(100, overallProgress))
       IN onProgress(s, safeProgress)

\* startChunkUpload up to its await: the request leaves with the signal of
\* the current AbortController (none when the field is null).
startChunkUpload(s, index, uid) ==
  [s EXCEPT !.activeConnections = @ + 1,
            !.chunks = updateChunkStatus(@, index, "uploading"),
            !.inflight = Append(@, [index |-> index, signal |-> s.abortController,
                                    uploadId |-> uid, fileHash |-> s.fileHash])]

\* handleChunkSuccess taking completions in index order only
handleChunkSuccessInOrder(s, index) ==
  IF \A j \in 1..Len(s.chunks) :
       s.chunks[j].index < index => s.chunks[j].status = "completed"
  THEN onChunkSuccess([s EXCEPT !.chunks = updateChunkStatus(@, index, "completed")], index)
  ELSE onChunkSuccess(s, index)

handleChunkSuccess(s, index) ==
  onChunkSuccess([s EXCEPT !.chunks = updateChunkStatus(@, index, "completed")], index)

\* handleChunkError re-enqueueing once more (<= for <)
handleChunkErrorOneMore(s, index) ==
  IF s.aborted THEN s
  ELSE LET s1 == [s EXCEPT !.chunks = updateChunkStatus(@, index, "failed")]
       IN IF RetriesOf(s1.chunks, index) <= MaxRetries
          THEN [s1 EXCEPT !.retryQueue = Append(@, index)]
          ELSE s1

handleChunkError(s, index) ==
  IF s.aborted THEN s
  ELSE LET s1 == [s EXCEPT !.chunks = updateChunkStatus(@, index, "failed")]
       IN IF RetriesOf(s1.chunks, index) < MaxRetries
          THEN [s1 EXCEPT !.retryQueue = Append(@, index)]
          ELSE s1

RemoveAt(q, k) == SubSeq(q, 1, k - 1) \o SubSeq(q, k + 1, Len(q))

\* startChunkUpload's finally without activeConnections--
chunkSettledKeepsConnection(s, k) ==
  updateProgress([s EXCEPT !.inflight = RemoveAt(@, k)])

\* startChunkUpload: finally, for the request at position k of inflight
chunkSettled(s, k) ==
  updateProgress([s EXCEPT !.activeConnections = @ - 1,
                           !.inflight = RemoveAt(@, k)])

\* startChunkUpload: uploadChunk resolved
chunkResolved(s, k) == chunkSettled(handleChunkSuccess(s, s.inflight[k].index), k)

\* startChunkUpload's catch handing every chunk failure to onError
chunkRejectedReports(s, k) ==
  chunkSettled(onError(handleChunkError(s, s.inflight[k].index), 0,
                       "Chunk upload failed"), k)

\* startChunkUpload: uploadChunk rejected (transport failure or cancellation)
chunkRejected(s, k) == chunkSettled(handleChunkError(s, s.inflight[k].index), k)

\* completeUpload up to its await: throws when paused or aborted, otherwise
\* the merge request leaves.  ok = FALSE stands for the throw.
completeUpload(s, c, uid, pc) ==
  IF s.paused \/ s.aborted
  THEN [ok |-> FALSE, s |-> s]
  ELSE [ok |-> TRUE, s |-> [SetPc(s, c, pc) EXCEPT !.chains[c].uploadId = uid]]

\* execute(): catch and finally
executeFails(s, msg) == SetPc(cleanup(handleUploadError(s, 0, msg)), 0, "done")

\* execute() without the return after onSuccess: the next statement throws
executeSucceedsNoReturn(s, how) ==
  executeFails(onSuccess(s, 0, how), "Missing uploadId in server response")

\* execute(): onSuccess, return, finally
executeSucceeds(s, how) == SetPc(cleanup(onSuccess(s, 0, how)), 0, "done")

\* What follows processUploadQueue in the chain that called it.
afterProcessUploadQueue(s, c) ==
  IF c = 0
  THEN LET r == completeUpload(s, 0, s.uploadId, "merge")
       IN IF r.ok THEN r.s ELSE executeFails(s, "Upload was paused or aborted")
  ELSE IF ~s.paused /\ ~s.aborted
       THEN completeUpload(s, c, s.uploadId, "merge").s
       ELSE SetPc(s, c, "done")

\* waitForActiveConnections, from the head of its loop
waitForActiveConnections(s, c) ==
  IF s.activeConnections > 0 /\ ~s.aborted
  THEN SetPc(s, c, "wait")
  ELSE afterProcessUploadQueue(s, c)

\* processUploadQueue, from the head of its loop to the next delay
processUploadQueue(s, c) ==
  IF shouldContinueProcessing(s)
  THEN IF canStartNewConnection(s)
       THEN LET n == getNextChunk(s)
            IN SetPc(startChunkUpload(n[2], n[1], s.chains[c].uploadId), c, "loop")
       ELSE SetPc(s, c, "loop")
  ELSE IF s.paused
       THEN afterProcessUploadQueue(s, c)
       ELSE waitForActiveConnections(s, c)

RECURSIVE markCompleted(_, _)
\* uploadedChunks.forEach(index => updateChunkStatus(index, 'completed'))
markCompleted(cs, uploaded) ==
  IF uploaded = {} THEN cs
  ELSE LET i == CHOOSE x \in uploaded : TRUE
       IN markCompleted(updateChunkStatus(cs, i, "completed"), uploaded \ {i})

RECURSIVE fireLoop(_, _, _)
\* the rejection handlers of the requests holding the fired signal, from
\* position k of inflight on
fireLoop(s, k, controller) ==
  IF k > Len(s.inflight) THEN s
  ELSE IF s.inflight[k].signal = controller
       THEN fireLoop(chunkRejected(s, k), k, controller)
       ELSE fireLoop(s, k + 1, controller)

\* The microtasks that follow abortController.abort() for that controller.
rejectCancelled(s, controller) ==
  IF controller = 0 THEN s ELSE fireLoop(s, 1, controller)

\* checkUploadProgress up to its await
checkUploadProgress(s, c, uid) ==
  [SetPc(s, c, "check") EXCEPT !.chains[c].uploadId = uid]

\* processUploadQueue(uploadId), entered by chain c
enterProcessUploadQueue(s, c, uid) ==
  processUploadQueue([s EXCEPT !.chains[c].uploadId = uid], c)

\* execute(), from the end of the hash step to the next await
afterHash(s) ==
  LET s1 == [s EXCEPT !.hashCalculated = TRUE]
  IN IF s1.uploadId = NULL
     THEN SetPc(s1, 0, "init")
     ELSE checkUploadProgress(s1, 0, s1.uploadId)

\* ChunkManager.calculateFileHash, from the head of its loop
hashLoop(s) ==
  IF s.hashOffset < fileSize
  THEN SetPc(s, 0, "hash")
  ELSE afterHash([s EXCEPT !.fileHash = Digest, !.hashCalculated = TRUE])

\* execute(), after checkUploadProgress has answered
executeAfterCheck(s, uploaded, isComplete) ==
  IF isComplete
  THEN LET s1 == onProgress(s, 100)
           r == completeUpload(s1, 0, s1.uploadId, "mergeComplete")
       IN IF r.ok THEN r.s ELSE executeFails(s1, "Upload was paused or aborted")
  ELSE LET s1 == IF uploaded # {}
                 THEN LET progress == 20 + (Cardinality(uploaded) * 80) \div Len(s.chunks)
                      IN onProgress([s EXCEPT !.chunks = markCompleted(@, uploaded),
                                              !.lastReportedProgress = progress],
                                    progress)
                 ELSE s
       IN enterProcessUploadQueue(prepareUploadQueue(s1), 0, s1.uploadId)

\* resume(): the promise chain after checkUploadProgress has answered
resumeAfterCheck(s, c, uploaded, isComplete) ==
  LET s0 == [s EXCEPT !.reported = @ \cup uploaded]
      s1 == IF uploaded # {}
            THEN updateBaseProgress([s0 EXCEPT !.chunks = markCompleted(@, uploaded)])
            ELSE s0
  IN IF isComplete
     THEN LET r == completeUpload(s1, c, s1.uploadId, "mergeComplete")
          IN IF r.ok THEN r.s
             ELSE SetPc(onError(s1, c, "Upload was paused or aborted"), c, "done")
     ELSE enterProcessUploadQueue(prepareUploadQueue(s1), c, s1.uploadId)

\* checkUploadProgress: what the chain does with an answer of checkProgress
checkAnswered(s, c, uploaded, isComplete) ==
  IF c = 0 THEN executeAfterCheck(s, uploaded, isComplete)
           ELSE resumeAfterCheck(s, c, uploaded, isComplete)

\* checkUploadProgress with a catch that logs and rethrows
checkRejectedThrows(s, c) ==
  LET s1 == Emit(s, "console.error", c, "checkProgress failed")
  IN  IF c = 0 THEN executeFails(s1, "checkProgress failed")
               ELSE SetPc(onError(s1, c, "checkProgress failed"), c, "done")

\* checkUploadProgress: catch.  console.error, then the chain goes on with
\* uploadedChunks = [] and isComplete = false
checkRejected(s, c) ==
  checkAnswered(Emit(s, "console.error", c, "checkProgress failed"), c, {}, FALSE)

\* ---------------------------------------------------------------- chains
NoChain == [pc |-> "none", uploadId |-> NULL, nSuccess |-> 0, nError |-> 0]

NoCall == [op |-> "none", index |-> 0, status |-> "", exclude |-> <<>>, value |-> <<>>]

ChunkIndices == {chunks[k].index : k \in 1..Len(chunks)}

Started == chains[0].pc # "idle"

EngineInit ==
  /\ fileSize = FileSize
  /\ chunkSize = ChunkSize
  /\ chunks = prepareChunks(FileSize, ChunkSize)
  /\ fileHash = NULL
  /\ hashOffset = 0
  /\ hashCalculated = FALSE
  /\ lastReportedProgress = 0
  /\ activeConnections = 0
  /\ paused = FALSE
  /\ aborted = FALSE
  /\ abortController = 0
  /\ pendingChunks = <<>>
  /\ retryQueue = <<>>
  /\ uploadId = NULL
  /\ chains = [c \in 0..MaxChains |-> IF c = 0 THEN [NoChain EXCEPT !.pc = "idle"]
                                                ELSE NoChain]
  /\ nResume = 0
  /\ inflight = <<>>
  /\ nInputs = 0
  /\ reported = {}
  /\ events = <<>>
  /\ progressBefore = 0
  /\ tablePc = "built"
  /\ returned = NoCall

\* --------------------------------------------------------- caller actions
\* BigFileUploader.start -> ConcurrentStrategy.execute
Start ==
  /\ chains[0].pc = "idle"
  /\ Commit(hashLoop([Begin EXCEPT !.abortController = 1]))

Pause ==
  /\ Started
  /\ nInputs < MaxInputs
  /\ Commit(rejectCancelled([Input EXCEPT !.paused = TRUE, !.abortController = 0],
                            abortController))

Resume ==
  /\ Started
  /\ paused
  /\ nInputs < MaxInputs
  /\ nResume < MaxChains
  /\ LET c == nResume + 1
         s == [Input EXCEPT !.paused = FALSE, !.nResume = c, !.abortController = c + 1]
     IN Commit(checkUploadProgress(s, c, s.uploadId))

Abort ==
  /\ Started
  /\ nInputs < MaxInputs
  /\ LET s == [Input EXCEPT !.aborted = TRUE, !.uploadId = NULL, !.hashCalculated = FALSE]
     IN Commit(rejectCancelled(cleanup([s EXCEPT !.abortController = 0]), abortController))

\* ------------------------------------------------------------- hashing
\* readFileAsArrayBuffer resolves: one window hashed, progress reported
HashRead ==
  /\ chains[0].pc = "hash"
  /\ LET end == Min(hashOffset + chunkSize, fileSize)
         progress == Min(100, FloorPercent(end, fileSize))
     IN Commit(hashLoop(hashProgressCallback([Begin EXCEPT !.hashOffset = end], progress)))

\* calculateFileHashWithProgress: catch, without the progress reset
hashReadFailedKeepsProgress(s) == executeFails(s, "File hash calculation failed")

\* calculateFileHashWithProgress: catch, then execute(): catch and finally
hashReadFailed(s) == executeFails(onProgress(s, 0), "File hash calculation failed")

\* readFileAsArrayBuffer rejects
HashFail ==
  /\ chains[0].pc = "hash"
  /\ nInputs < MaxInputs
  /\ Commit(hashReadFailed(Input))

\* ------------------------------------------------- transport responses
\* execute() step 2 with the exists branch lacking onProgress(100)
initAnsweredNoFinalProgress(s, outcome) ==
  CASE outcome = "error" -> executeFails(s, "Upload initialization failed")
    [] outcome = "exists" -> executeSucceeds(s, "exists")
    [] outcome = "noUploadId" -> executeFails(s, "Missing uploadId in server response")
    [] outcome = "uploadId" ->
         checkUploadProgress([s EXCEPT !.uploadId = ServerUploadId], 0, ServerUploadId)

\* execute() step 2, after initUploadSession has answered
initAnswered(s, outcome) ==
  CASE outcome = "error" -> executeFails(s, "Upload initialization failed")
    [] outcome = "exists" -> executeSucceeds(onProgress(s, 100), "exists")
    [] outcome = "noUploadId" -> executeFails(s, "Missing uploadId in server response")
    [] outcome = "uploadId" ->
         checkUploadProgress([s EXCEPT !.uploadId = ServerUploadId], 0, ServerUploadId)

InitResponse ==
  /\ chains[0].pc = "init"
  /\ \E outcome \in {"error", "exists", "noUploadId", "uploadId"} :
       Commit(initAnswered(Begin, outcome))

\* checkProgress answers or rejects.  The server reports any set of chunks,
\* and isComplete only with all of them.
CheckResponse ==
  \E c \in 0..MaxChains :
    /\ chains[c].pc = "check"
    /\ \/ \E uploaded \in SUBSET ChunkIndices :
            \E isComplete \in {FALSE, uploaded = ChunkIndices} :
              Commit(checkAnswered(Begin, c, uploaded, isComplete))
       \/ Commit(checkRejected(Begin, c))

\* mergeChunks answers
mergeAnswered(s, c, ok) ==
  LET how == IF s.chains[c].pc = "mergeComplete" THEN "complete" ELSE "merge"
  IN IF c = 0
     THEN IF ok THEN executeSucceeds(s, how)
                ELSE executeFails(s, "File merge failed")
     ELSE IF ok THEN SetPc(onSuccess(s, c, how), c, "done")
                ELSE SetPc(onError(s, c, "File merge failed"), c, "done")

MergeResponse ==
  \E c \in 0..MaxChains :
    /\ chains[c].pc \in {"merge", "mergeComplete"}
    /\ \E ok \in BOOLEAN : Commit(mergeAnswered(Begin, c, ok))

ChunkSuccess ==
  \E k \in 1..Len(inflight) : Commit(chunkResolved(Begin, k))

\* uploadChunk rejects after the transport's own retries
ChunkFailure ==
  /\ nInputs < MaxInputs
  /\ \E k \in 1..Len(inflight) : Commit(chunkRejected(Input, k))

\* onUploadProgress of an in-flight request
ChunkByteProgress ==
  /\ nInputs < MaxInputs
  /\ \E k \in 1..Len(inflight), chunkProgress \in ByteProgress :
       Commit(updateChunkProgress(Input, chunkProgress))

\* ---------------------------------------------------------------- timers
\* delay(50) of processUploadQueue fires
LoopTick ==
  \E c \in 0..MaxChains :
    /\ chains[c].pc = "loop"
    /\ Commit(processUploadQueue(Begin, c))

Next ==
  \/ Start
  \/ Pause
  \/ Resume
  \/ Abort
  \/ HashRead
  \/ HashFail
  \/ InitResponse
  \/ CheckResponse
  \/ MergeResponse
  \/ ChunkSuccess
  \/ ChunkFailure
  \/ ChunkByteProgress
  \/ LoopTick

Spec == EngineInit /\ [][Next]_vars

\* ------------------------------------- a session nobody pauses or aborts
\* The caller only calls start().  Every read of the file and every
\* transport call is answered, and every delay(50) fires.
UndisturbedNext ==
  \/ Start
  \/ HashRead
  \/ HashFail
  \/ InitResponse
  \/ CheckResponse
  \/ MergeResponse
  \/ ChunkSuccess
  \/ ChunkFailure
  \/ ChunkByteProgress
  \/ LoopTick

\* A read, a transport call or a delay that is pending is answered or fires
Answered ==
  \/ HashRead
  \/ HashFail
  \/ InitResponse
  \/ CheckResponse
  \/ MergeResponse
  \/ ChunkSuccess
  \/ ChunkFailure
  \/ LoopTick

UndisturbedSpec ==
  /\ EngineInit
  /\ [][UndisturbedNext]_vars
  /\ WF_vars(Answered)

\* ------------------------------------------------- chunk table on its own
\* new ChunkManager(file, chunkSize) for every file size and chunk size
TableInit ==
  /\ fileSize \in 0..MaxFileSize
  /\ chunkSize \in 1..MaxChunkSize
  /\ chunks = <<>>
  /\ tablePc = "new"
  /\ fileHash = NULL
  /\ hashOffset = 0
  /\ hashCalculated = FALSE
  /\ lastReportedProgress = 0
  /\ activeConnections = 0
  /\ paused = FALSE
  /\ aborted = FALSE
  /\ abortController = 0
  /\ pendingChunks = <<>>
  /\ retryQueue = <<>>
  /\ uploadId = NULL
  /\ chains = [c \in 0..MaxChains |-> IF c = 0 THEN [NoChain EXCEPT !.pc = "idle"]
                                               ELSE NoChain]
  /\ nResume = 0
  /\ inflight = <<>>
  /\ nInputs = 0
  /\ reported = {}
  /\ events = <<>>
  /\ progressBefore = 0
  /\ returned = NoCall

\* the constructor: _prepareChunks()
Construct ==
  /\ tablePc = "new"
  /\ chunks' = prepareChunks(fileSize, chunkSize)
  /\ tablePc' = "built"
  /\ UNCHANGED <<fileSize, chunkSize, fileHash, hashOffset, hashCalculated,
                 lastReportedProgress, activeConnections, paused, aborted,
                 abortController, pendingChunks, retryQueue, uploadId, chains,
                 nResume, inflight, nInputs, reported, events, progressBefore,
                 returned>>

\* the fields the hasher leaves alone
HashFrame ==
  UNCHANGED <<fileSize, chunkSize, chunks, hashCalculated, lastReportedProgress,
              activeConnections, paused, aborted, abortController, pendingChunks,
              retryQueue, uploadId, chains, nResume, inflight, reported,
              progressBefore, returned>>

\* calculateFileHash never returning the stored digest
hashNeverMemoized(hash) == FALSE

\* calculateFileHash: if (this.fileHash) return this.fileHash
hashMemoized(hash) == hash # NULL

\* A caller calls calculateFileHash(onProgress) on the built table; nInputs
\* counts the calls.  The call returns the stored digest, or starts the read
\* loop (which a file of size 0 leaves at once).
CalculateFileHash ==
  /\ tablePc = "built"
  /\ nInputs < MaxInputs
  /\ nInputs' = nInputs + 1
  /\ events' = <<>>
  /\ IF hashMemoized(fileHash)
     THEN UNCHANGED <<fileHash, hashOffset, tablePc>>
     ELSE /\ hashOffset' = 0
          /\ IF 0 < fileSize
             THEN tablePc' = "hashing" /\ fileHash' = fileHash
             ELSE tablePc' = tablePc /\ fileHash' = Digest
  /\ HashFrame

\* calculateFileHash: one window is read and hashed, onProgress is given
\* the percentage, and the digest is stored after the last window
TableHashRead ==
  /\ tablePc = "hashing"
  /\ LET end == Min(hashOffset + chunkSize, fileSize)
     IN /\ hashOffset' = end
        /\ events' = <<[cb |-> "hashProgress",
                        v |-> Min(100, FloorPercent(end, fileSize)), msg |-> ""]>>
        /\ IF end < fileSize
           THEN tablePc' = "hashing" /\ fileHash' = fileHash
           ELSE tablePc' = "built" /\ fileHash' = Digest
  /\ nInputs' = nInputs
  /\ HashFrame

TableNext ==
  \/ Construct
  \/ CalculateFileHash
  \/ TableHashRead

TableSpec == TableInit /\ [][TableNext]_vars

\* ------------------------------------- the status operations of the table
ChunkStatuses == {"pending", "uploading", "completed", "failed"}

\* the arrays a caller passes as excludeIndices
ExcludeLists == {<<>>, <<0>>, <<1>>, <<2, 0>>, <<1, 3>>}

\* a ChunkManager built for every file of up to FileSize bytes and every
\* chunk size up to ChunkSize
StatusInit ==
  /\ fileSize \in 0..FileSize
  /\ chunkSize \in 1..ChunkSize
  /\ chunks = prepareChunks(fileSize, chunkSize)
  /\ tablePc = "built"
  /\ fileHash = NULL
  /\ hashOffset = 0
  /\ hashCalculated = FALSE
  /\ lastReportedProgress = 0
  /\ activeConnections = 0
  /\ paused = FALSE
  /\ aborted = FALSE
  /\ abortController = 0
  /\ pendingChunks = <<>>
  /\ retryQueue = <<>>
  /\ uploadId = NULL
  /\ chains = [c \in 0..MaxChains |-> IF c = 0 THEN [NoChain EXCEPT !.pc = "idle"]
                                               ELSE NoChain]
  /\ nResume = 0
  /\ inflight = <<>>
  /\ nInputs = 0
  /\ reported = {}
  /\ events = <<>>
  /\ progressBefore = 0
  /\ returned = NoCall

\* the fields the status operations leave alone
StatusFrame ==
  UNCHANGED <<fileSize, chunkSize, fileHash, hashOffset, hashCalculated,
              lastReportedProgress, activeConnections, paused, aborted,
              abortController, pendingChunks, retryQueue, uploadId, chains,
              nResume, inflight, reported, events, progressBefore, tablePc>>

\* A caller calls updateChunkStatus(index, status), also with an index the
\* table does not have; nInputs counts the calls.
UpdateChunkStatus ==
  /\ nInputs < MaxInputs
  /\ \E index \in (0 - 1)..Len(chunks), status \in ChunkStatuses :
       /\ chunks' = updateChunkStatus(chunks, index, status)
       /\ returned' = [NoCall EXCEPT !.op = "updateChunkStatus",
                                     !.index = index, !.status = status]
  /\ nInputs' = nInputs + 1
  /\ StatusFrame

\* A caller calls getProgress() on a table that has chunks (on an empty
\* table the division gives NaN).
GetProgress ==
  /\ Len(chunks) > 0
  /\ returned' = [NoCall EXCEPT !.op = "getProgress",
                                !.value = <<getProgress(chunks)>>]
  /\ UNCHANGED <<chunks, nInputs>>
  /\ StatusFrame

\* A caller calls getPendingChunks(excludeIndices)
GetPendingChunks ==
  /\ \E excludeIndices \in ExcludeLists :
       returned' = [NoCall EXCEPT !.op = "getPendingChunks",
                                  !.exclude = excludeIndices,
                                  !.value = getPendingChunks(chunks, excludeIndices)]
  /\ UNCHANGED <<chunks, nInputs>>
  /\ StatusFrame

StatusNext ==
  \/ UpdateChunkStatus
  \/ GetProgress
  \/ GetPendingChunks

StatusSpec == StatusInit /\ [][StatusNext]_vars

\* ================================================================ claims
NonDecreasing(q) == \A k \in 1..(Len(q) - 1) : q[k] <= q[k + 1]

AllCompleted == \A k \in 1..Len(chunks) : chunks[k].status = "completed"

\* a chunk whose upload failed until its retries reached maxRetries
Exhausted ==
  \E k \in 1..Len(chunks) : chunks[k].status = "failed" /\ chunks[k].retries >= MaxRetries

Callbacks(names) == {k \in 1..Len(events) : events[k].cb \in names}

\* some chain sends a chunk upload in this step
UploadStarted == Len(inflight') > Len(inflight)

\* C1: in every reachable state the number of chunk uploads in flight
\* (activeConnections) is at most the concurrency limit, and a step starts a
\* chunk upload only from a state with activeConnections below the limit,
\* one upload per step, taken from a non-empty retry or pending queue (the
\* queue as it stands, or as the handler of the progress answer rebuilt it).
C1_ConcurrencyBound ==
  /\ [](activeConnections = Len(inflight) /\ activeConnections <= Concurrent)
  /\ [][UploadStarted =>
          /\ activeConnections < Concurrent
          /\ Len(inflight') = Len(inflight) + 1
          /\ \/ Len(retryQueue') + Len(pendingChunks')
                  < Len(retryQueue) + Len(pendingChunks)
             \/ \E c \in 0..MaxChains :
                  chains[c].pc = "check" /\ chains'[c].pc # "check"]_vars

\* the limit is reached while chunks are still queued and the scheduler runs
C1_Witness ==
  /\ activeConnections = Concurrent
  /\ Len(pendingChunks) + Len(retryQueue) > 0
  /\ \E c \in 0..MaxChains : chains[c].pc = "loop"

\* C2: for every file size >= 0 and chunk size > 0 the table built by the
\* constructor covers [0, fileSize) exactly once: indices ascend from 0
\* without gaps, chunk 0 starts at 0, each chunk starts where the previous
\* one ends, the last chunk ends at fileSize, every chunk but the last has
\* length chunkSize, no chunk is empty, and the lengths sum to fileSize.
C2_ChunkTableCovers ==
  tablePc = "built" =>
    LET n == Len(chunks)
        len(k) == chunks[k].end - chunks[k].start
        sum[k \in 0..n] == IF k = 0 THEN 0 ELSE sum[k - 1] + len(k)
    IN /\ \A k \in 1..n : chunks[k].index = k - 1
       /\ n > 0 => chunks[1].start = 0 /\ chunks[n].end = fileSize
       /\ \A k \in 2..n : chunks[k].start = chunks[k - 1].end
       /\ \A k \in 1..(n - 1) : len(k) = chunkSize
       /\ \A k \in 1..n : len(k) > 0 /\ len(k) <= chunkSize
       /\ sum[n] = fileSize

\* a table of several chunks whose last chunk is shorter than the others
C2_Witness ==
  /\ tablePc = "built"
  /\ Len(chunks) >= 3
  /\ chunks[Len(chunks)].end - chunks[Len(chunks)].start < chunkSize

\* C3: in a session that is neither paused, resumed nor aborted, once the
\* digest exists the values given to onProgress never decrease: each is at
\* least the one given before it.
C3_ProgressMonotonic ==
  (fileHash # NULL /\ ~paused /\ ~aborted /\ nResume = 0) =>
    NonDecreasing(<<progressBefore>> \o ProgressValues(events))

\* C4: when resume() has queried the progress of the server's upload
\* session, a chunk upload is never started for an index that the query has
\* reported as uploaded.
C4_NoReuploadAfterResume ==
  [][(UploadStarted /\ \A c \in 1..MaxChains :
                         chains'[c].pc # "none" => chains'[c].uploadId # NULL)
        => inflight'[Len(inflight')].index \notin reported']_vars

\* C5: with no pause, resume or abort, once a chunk has exhausted its
\* retries no merge request is in flight and onSuccess is not invoked.
C5_ExhaustedChunkFailsSession ==
  (Exhausted /\ ~paused /\ ~aborted /\ nResume = 0) =>
    /\ \A c \in 0..MaxChains : chains[c].pc # "merge"
    /\ Callbacks({"onSuccess"}) = {}

\* C6: in a session that is neither paused, resumed nor aborted, the merge
\* request that follows the chunk uploads is sent only when every chunk is
\* completed, and onSuccess for that merge fires only then.
C6_NoPartialSuccess ==
  [][(~paused' /\ ~aborted' /\ nResume' = 0) =>
       /\ \A c \in 0..MaxChains :
            (chains[c].pc # "merge" /\ chains'[c].pc = "merge") => AllCompleted'
       /\ \A k \in 1..Len(events') :
            (events'[k].cb = "onSuccess" /\ events'[k].msg = "merge") => AllCompleted']_vars

\* C7: abort() called while chunk uploads are in flight, in a session never
\* resumed, is followed by no onChunkSuccess, onProgress or onSuccess from
\* those uploads settling.
C7_NoCallbackAfterAbort ==
  [][(~aborted /\ aborted' /\ Len(inflight) > 0 /\ nResume = 0) =>
        \A k \in 1..Len(events') :
          events'[k].cb \notin {"onChunkSuccess", "onProgress", "onSuccess"}]_vars

\* C8: in a session never resumed, the error by which the engine stops a
\* paused or aborted upload is never given to onError.
C8_CancellationNeverOnError ==
  nResume = 0 =>
    \A k \in Callbacks({"onError"}) : events[k].msg # "Upload was paused or aborted"

\* C9: no start() or resume() attempt invokes both onSuccess and onError,
\* and none invokes either of them twice.
C9_TerminalCallbackOnce ==
  \A c \in 0..MaxChains : chains[c].nSuccess + chains[c].nError <= 1

\* the start() attempt has ended in onError and a resume() attempt in onSuccess
C9_Witness ==
  /\ chains[0].nError = 1
  /\ \E c \in 1..MaxChains : chains[c].nSuccess = 1

\* C10: every chunk upload in flight was sent with the file digest.
C10_DigestBeforeUpload ==
  \A k \in 1..Len(inflight) : inflight[k].fileHash # NULL

\* the step is a call of pause() that sets the flag / of abort()
PauseCalled == ~paused /\ paused'
AbortCalled == ~aborted /\ aborted'

\* chunks of the requests that hold the signal of the current controller
Cancellable ==
  {inflight[k].index : k \in {j \in 1..Len(inflight) :
                               abortController # 0 /\ inflight[j].signal = abortController}}

\* C11: when pause() cancels the uploads in flight of a session not yet
\* resumed, every chunk whose upload it cancelled has status pending once
\* the cancellations have been processed.
C11_CancelledChunkPending ==
  [][(PauseCalled /\ ~aborted /\ nResume = 0) =>
       \A k \in 1..Len(chunks') :
         chunks'[k].index \in Cancellable => chunks'[k].status = "pending"]_vars

\* C12: in a session not yet resumed, a call of pause() or abort(), with
\* the cancellations it causes, changes the retry count of no chunk.
C12_CancellationKeepsRetries ==
  [][((PauseCalled \/ AbortCalled) /\ nResume = 0) =>
       \A k \in 1..Len(chunks) : chunks'[k].retries = chunks[k].retries]_vars

\* C13: pause() sets the paused flag only while a scheduler loop is
\* running (the engine is uploading); in every other state it changes
\* nothing.
C13_PauseOnlyWhenUploading ==
  [][PauseCalled => \E c \in 0..MaxChains : chains[c].pc = "loop"]_vars

\* the step is a call of resume() that takes effect: it starts a chain
ResumeTakesEffect == nResume' > nResume

\* C14: resume() called on an aborted engine, one of whose chunk uploads
\* was cut short, takes no effect: it issues no progress query and changes
\* no state.
C14_ResumeNoOpWhenAborted ==
  [][(aborted /\ \E k \in 1..Len(chunks) : chunks[k].status = "failed")
       => ~ResumeTakesEffect]_vars

\* C15: once abort() has been called no chunk upload is started, whatever
\* is called or settles later, and the call of abort() with the
\* cancellations it causes leaves the chunk table as it was.
C15_AbortDisablesScheduling ==
  [][/\ aborted' => ~UploadStarted
     /\ AbortCalled => chunks' = chunks]_vars

\* an aborted engine whose queue a later resume() has filled again
C15_Witness ==
  /\ aborted
  /\ Len(pendingChunks) > 0
  /\ \E c \in 1..MaxChains : chains[c].pc = "done"

\* C16: once start() has ended in onSuccess, resume() takes no effect: no
\* progress query is issued.
C16_SucceededIsTerminal ==
  [][(chains[0].nSuccess = 1 /\ nResume = 0) => ~ResumeTakesEffect]_vars

\* what the exists branch of execute() gives the caller
ExistsCallbacks ==
  <<[cb |-> "onProgress", v |-> 100, msg |-> ""],
    [cb |-> "onSuccess", v |-> 0, msg |-> "exists"]>>

\* C17: when the init answer makes start() succeed at once (exists), the
\* handler invokes onProgress(100) and then onSuccess, once each and nothing
\* else, sends no request and starts no upload, and start() does nothing
\* afterwards.
C17_ExistsShortCircuits ==
  [][/\ (chains[0].pc = "init" /\ chains'[0].pc = "done" /\ chains'[0].nSuccess = 1) =>
          /\ events' = ExistsCallbacks
          /\ chains'[0].nError = 0
          /\ inflight' = inflight
          /\ \A c \in 1..MaxChains : chains'[c] = chains[c]
     /\ chains[0].pc = "done" => chains'[0] = chains[0]]_vars

\* start() has just succeeded on an exists answer
C17_Witness ==
  /\ chains[0].pc = "done"
  /\ events = ExistsCallbacks
  /\ inflight = <<>>

\* The value onProgress was last given before the k-th callback of events.
LastProgressBefore(k) ==
  LET ps == ProgressValues(SubSeq(events, 1, k - 1))
  IN IF ps = <<>> THEN progressBefore ELSE ps[Len(ps)]

\* C18: in a session that is neither paused, resumed nor aborted, whenever
\* onSuccess is invoked the value onProgress was last given is 100.
C18_FinalProgress100 ==
  (nResume = 0 /\ ~paused /\ ~aborted) =>
    \A k \in Callbacks({"onSuccess"}) : LastProgressBefore(k) = 100

Undisturbed == nResume = 0 /\ ~paused /\ ~aborted

\* C19: in a session that is neither paused, resumed nor aborted, when the
\* init or merge answer ends start() without success the handler invokes
\* onError exactly once and nothing else, with the message of the failure,
\* onSuccess is not invoked, the queues are empty, and no chunk upload is
\* started afterwards.
C19_TerminalFailureOnce ==
  [][/\ (/\ Undisturbed
         /\ chains[0].pc \in {"init", "merge", "mergeComplete"}
         /\ chains'[0].pc = "done"
         /\ chains'[0].nSuccess = 0) =>
          /\ Len(events') = 1
          /\ events'[1].cb = "onError"
          /\ events'[1].msg \in {"Upload initialization failed",
                                 "Missing uploadId in server response",
                                 "File merge failed"}
          /\ chains'[0].nError = 1
          /\ pendingChunks' = <<>> /\ retryQueue' = <<>>
          /\ ~UploadStarted
     /\ (chains[0].pc = "done" /\ nResume' = 0) =>
          (~UploadStarted /\ chains'[0] = chains[0])]_vars

\* the merge request of an undisturbed start() has just failed
C19_Witness ==
  /\ Undisturbed
  /\ chains[0].pc = "done"
  /\ chains[0].nError = 1 /\ chains[0].nSuccess = 0
  /\ events = <<[cb |-> "onError", v |-> 0, msg |-> "File merge failed"]>>

\* C20: once calculateFileHash has stored a digest, the digest never
\* changes, and a later call returns it at once: it reads nothing of the
\* file and gives the progress callback nothing.
C20_HashMemoized ==
  [][/\ fileHash # NULL => fileHash' = fileHash
     /\ (tablePc = "built" /\ fileHash # NULL /\ nInputs' = nInputs + 1) =>
          /\ hashOffset' = hashOffset
          /\ tablePc' = "built"
          /\ events' = <<>>]_vars

\* a file of several windows has been hashed and calculateFileHash called again
C20_Witness ==
  /\ tablePc = "built"
  /\ fileHash = Digest
  /\ chunkSize < fileSize
  /\ hashOffset = fileSize
  /\ nInputs >= 2

\* ------------------------------------------------------------------ C21
\* C21: when a read fails during hashing of a session that was not aborted,
\* the handler of that failure reports progress 0 and then gives onError the
\* hash-computation error, once and with nothing else; the digest stays
\* unset, the start() attempt is over without having asked for an upload
\* session, and it issues no request afterwards.
C21_HashFailureAbortsHashCall ==
  [][ /\ (chains[0].pc = "hash" /\ chains'[0].pc = "done" /\ ~aborted)
           => (/\ events' = <<[cb |-> "onProgress", v |-> 0, msg |-> ""],
                              [cb |-> "onError", v |-> 0,
                               msg |-> "File hash calculation failed"]>>
               /\ chains'[0].nError = 1
               /\ chains'[0].nSuccess = 0
               /\ fileHash' = NULL
               /\ uploadId' = uploadId
               /\ inflight' = inflight)
      /\ (chains[0].pc = "done" /\ fileHash = NULL /\ chains[0].nError = 1)
           => (/\ chains'[0] = chains[0]
               /\ (nResume' = 0 => (inflight' = <<>> /\ uploadId' = NULL)))
    ]_vars

\* A read failed after part of the file had been hashed and reported.
C21_Witness ==
  /\ Undisturbed
  /\ chains[0].pc = "done"
  /\ fileHash = NULL
  /\ progressBefore > 0
  /\ Len(events) = 2
  /\ events[2].msg = "File hash calculation failed"

\* ------------------------------------------------------------------ C22
\* The values onProgress is given by the handler of a step
StepProgress == ProgressValues(events')

\* floor(20 + 0.8 * completion percentage), over the chunk table cs
UploadShare(cs) == 20 + (getProgress(cs) * 4) \div 5

\* C22: every value onProgress is given is an integer of 0..100; before the
\* digest is known (hashing) the values lie in 0..20, and the hash callback
\* reports floor(0.2 * hash progress); once the digest is known (uploading)
\* the values lie in 20..100, and a settled chunk upload reports
\* floor(20 + 0.8 * completion percentage).
C22_ProgressRanges ==
  [][ /\ \A k \in 1..Len(StepProgress) :
           /\ StepProgress[k] \in 0..100
           /\ fileHash = NULL => StepProgress[k] <= 20
           /\ fileHash # NULL => StepProgress[k] >= 20
      /\ (chains[0].pc = "hash" /\ hashOffset' > hashOffset)
           => \A k \in 1..Len(StepProgress) :
                StepProgress[k] = Min(100, FloorPercent(hashOffset', fileSize)) \div 5
      /\ (fileHash # NULL /\ Len(inflight') < Len(inflight))
           => StepProgress[Len(StepProgress)] = UploadShare(chunks')
    ]_vars

\* ------------------------------------------------------------------ C23
\* The request a step has added to the in-flight requests
NewRequest == inflight'[Len(inflight')]

\* C23: whenever a chunk upload is started while the retry queue is not
\* empty, the chunk is the head of the retry queue and is removed from it;
\* a chunk of the pending queue is started only when the retry queue is
\* empty, and it is the head of the pending queue (as the step found it, or
\* as the step rebuilt it after a progress query).
C23_RetryQueueFirst ==
  [][UploadStarted =>
       IF retryQueue # <<>>
       THEN /\ NewRequest.index = Head(retryQueue)
            /\ retryQueue' = Tail(retryQueue)
       ELSE /\ retryQueue' = <<>>
            /\ \/ /\ pendingChunks # <<>>
                  /\ NewRequest.index = Head(pendingChunks)
                  /\ pendingChunks' = Tail(pendingChunks)
               \/ \E c \in 0..MaxChains :
                    /\ chains[c].pc = "check"
                    /\ chains'[c].pc = "loop"
                    /\ NewRequest.index \notin SeqToSet(pendingChunks')
    ]_vars

\* A failed chunk is being uploaded again while chunks that were never tried
\* still wait in the pending queue.
C23_Witness ==
  /\ Undisturbed
  /\ pendingChunks # <<>>
  /\ \E k \in 1..Len(inflight) : RetriesOf(chunks, inflight[k].index) > 0

\* ------------------------------------------------------------------ C24
\* A step in which one chunk upload is rejected by the transport (and not
\* cancelled by pause() or abort())
UploadFailed ==
  /\ Len(inflight') = Len(inflight) - 1
  /\ nInputs' = nInputs + 1
  /\ paused' = paused
  /\ aborted' = aborted

\* The positions of inflight whose removal gives inflight'
SettledAt == {k \in 1..Len(inflight) : inflight' = RemoveAt(inflight, k)}

\* C24: when a chunk upload fails in a session that was not aborted, the
\* chunk becomes failed and its retry count grows by exactly 1; if the new
\* count is below maxRetries the chunk is appended at the back of the retry
\* queue, and otherwise the retry queue is left as it was; the pending queue
\* is untouched in both cases.
C24_FailureCountsAndRequeues ==
  [][(UploadFailed /\ ~aborted) =>
       \E k \in SettledAt :
         LET index == inflight[k].index
             count == RetriesOf(chunks', index)
         IN /\ count = RetriesOf(chunks, index) + 1
            /\ \E j \in 1..Len(chunks') :
                 chunks'[j].index = index /\ chunks'[j].status = "failed"
            /\ retryQueue' = IF count < MaxRetries THEN Append(retryQueue, index)
                                                   ELSE retryQueue
            /\ pendingChunks' = pendingChunks
    ]_vars

\* A chunk has failed for the last time behind another chunk that waits in
\* the retry queue: it was re-enqueued once and is not re-enqueued again.
C24_Witness ==
  /\ Undisturbed
  /\ retryQueue # <<>>
  /\ \E j \in 1..Len(chunks) :
       /\ chunks[j].status = "failed"
       /\ chunks[j].retries = MaxRetries
       /\ chunks[j].index \notin SeqToSet(retryQueue)

\* ------------------------------------------------------------------ C25
\* The terminal callbacks the handler of a step invokes
TerminalCallbacks == {k \in 1..Len(events') : events'[k].cb \in {"onError", "onSuccess"}}

\* C25: the step in which a chunk upload fails invokes neither onError nor
\* onSuccess and ends no promise chain, and neither does a step that starts
\* a chunk upload (the retry); onError is invoked only by a step that ends
\* the promise chain it belongs to.
C25_TransientFailuresInvisible ==
  [][ /\ UploadFailed =>
           /\ TerminalCallbacks = {}
           /\ \A c \in 0..MaxChains :
                /\ chains'[c].nError = chains[c].nError
                /\ chains'[c].nSuccess = chains[c].nSuccess
                /\ chains'[c].pc = chains[c].pc
      /\ UploadStarted => TerminalCallbacks = {}
      /\ \A c \in 0..MaxChains :
           chains'[c].nError > chains[c].nError => chains'[c].pc = "done"
    ]_vars

\* A chunk failed, was uploaded again and completed, and no terminal
\* callback has been invoked.
C25_Witness ==
  /\ Undisturbed
  /\ \E j \in 1..Len(chunks) : chunks[j].status = "completed" /\ chunks[j].retries > 0
  /\ chains[0].nError = 0
  /\ chains[0].nSuccess = 0
  /\ Callbacks({"onError", "onSuccess"}) = {}

\* ------------------------------------------------------------------ C26
\* C26: resume() installs a controller that no earlier start() or resume()
\* installed, and every chunk upload started after a resume() leaves with
\* the signal of the controller the most recent resume() installed.
C26_FreshSignalAfterResume ==
  [][ /\ ResumeTakesEffect => abortController' = nResume' + 1
      /\ (UploadStarted /\ nResume' > 0) => NewRequest.signal = nResume' + 1
    ]_vars

\* ------------------------------------------------------------------ C27
\* C27: resume() sends no initUpload, and when start() has obtained the
\* uploadId of the session before resume() is called, the progress query
\* resume() sends carries that uploadId.
C27_ResumeKeepsUploadId ==
  [][ResumeTakesEffect =>
       /\ chains'[nResume'].pc = "check"
       /\ chains[0].uploadId = ServerUploadId
            => chains'[nResume'].uploadId = ServerUploadId
    ]_vars

\* ------------------------------------------------------------------ C28
\* C28: in every state after abort() the uploadId is null, also after an
\* initUpload request has answered.
C28_UploadIdNullAfterAbort == aborted => uploadId = NULL

\* ------------------------------------------------------------------ C29
\* A step in which one chunk upload is answered with success
UploadSucceeded ==
  /\ Len(inflight') = Len(inflight) - 1
  /\ nInputs' = nInputs

\* The value onProgress was last given
LastProgress ==
  LET ps == ProgressValues(events)
  IN IF ps = <<>> THEN progressBefore ELSE ps[Len(ps)]

\* C29: in a session that is never paused, resumed or aborted, whatever the
\* order in which the chunk uploads are answered: a successful answer marks
\* its own chunk completed, invokes onChunkSuccess once, for that chunk, and
\* reports the share of the chunks completed so far; no chunk that is being
\* uploaded or is completed is uploaded again; and when the scheduler loop
\* has ended and the merge is requested, every chunk is completed or has
\* used up its retries, and the progress last reported is the share of the
\* completed chunks.
C29_CompletionOrderIrrelevant ==
  [][ /\ (UploadSucceeded /\ Undisturbed) =>
           \E k \in SettledAt :
             LET index == inflight[k].index
             IN /\ events' = <<[cb |-> "onChunkSuccess", v |-> index, msg |-> ""],
                               [cb |-> "onProgress", v |-> UploadShare(chunks'), msg |-> ""]>>
                /\ getCompletedIndices(chunks')
                     = getCompletedIndices(updateChunkStatus(chunks, index, "completed"))
                /\ index \in SeqToSet(getCompletedIndices(chunks'))
                /\ index \notin SeqToSet(getCompletedIndices(chunks))
      /\ (UploadStarted /\ Undisturbed) =>
           \A j \in 1..Len(chunks) :
             chunks[j].index = NewRequest.index => chunks[j].status \in {"pending", "failed"}
      /\ (Undisturbed' /\ chains'[0].pc = "merge") =>
           /\ inflight' = <<>>
           /\ \A j \in 1..Len(chunks') :
                \/ chunks'[j].status = "completed"
                \/ chunks'[j].status = "failed" /\ chunks'[j].retries = MaxRetries
           /\ LastProgress' = UploadShare(chunks')
    ]_vars

\* The upload of chunk 1 is answered with success while chunk 0 is still
\* being uploaded.
C29_Witness ==
  /\ Undisturbed
  /\ Len(events) = 2
  /\ events[1] = [cb |-> "onChunkSuccess", v |-> 1, msg |-> ""]
  /\ \E k \in 1..Len(inflight) : inflight[k].index = 0
  /\ chunks[1].status = "uploading"

\* ------------------------------------------------------------------ C30
\* The start() attempt is over and has invoked exactly one terminal callback
Terminated ==
  /\ chains[0].pc = "done"
  /\ chains[0].nSuccess + chains[0].nError = 1

\* C30: in a session that is started and never paused or aborted, in which
\* every read and every transport call is answered and every delay fires,
\* the scheduler loop ends and the session reaches its end having invoked
\* exactly one of onSuccess and onError; it never invokes a second one.
C30_UndisturbedSessionTerminates ==
  /\ Started ~> Terminated
  /\ [](chains[0].nSuccess + chains[0].nError <= 1)
  /\ [][chains[0].pc = "done" => chains'[0] = chains[0]]_vars

\* The session has ended with onSuccess after the merge, one chunk having
\* needed a retry.
C30_Witness ==
  /\ Terminated
  /\ chains[0].nSuccess = 1
  /\ AllCompleted
  /\ \E j \in 1..Len(chunks) : chunks[j].retries > 0
  /\ inflight = <<>>

\* ------------------------------------------------------------------ C31
\* C31: a completed chunk stays completed when an upload fails late: the
\* step that handles the transport failure of a chunk upload moves no chunk
\* that is completed (here: one completed after an earlier failed attempt)
\* to failed and leaves its retry count as it was.
C31_CompletedStaysCompleted ==
  [][UploadFailed =>
       \A k \in 1..Len(chunks) :
         (chunks[k].status = "completed" /\ chunks[k].retries > 0) =>
            /\ chunks'[k].status # "failed"
            /\ chunks'[k].retries = chunks[k].retries
    ]_vars

\* ------------------------------------------------------------------ C32
\* C32: on every table with at least one chunk, getProgress() returns
\* completedCount / totalCount * 100 rounded down.
C32_ProgressRoundedDown ==
  [][returned'.op = "getProgress" =>
       returned'.value = <<FloorPercent(Len(getCompletedIndices(chunks)), Len(chunks))>>
    ]_vars

\* ------------------------------------------------------------------ C33
\* C33: updateChunkStatus(index, status) gives the chunk with that index
\* the status and leaves its other fields alone, except that its retry
\* count grows by exactly 1 when the status is failed; every other chunk is
\* unchanged, the table keeps its length, and with an index the table does
\* not have nothing changes.
C33_UpdateChunkStatusFrame ==
  [][(returned'.op = "updateChunkStatus" /\ nInputs' = nInputs + 1) =>
       LET index == returned'.index
           status == returned'.status
       IN /\ Len(chunks') = Len(chunks)
          /\ \A k \in 1..Len(chunks) :
               IF chunks[k].index = index
               THEN chunks'[k] =
                      [chunks[k] EXCEPT !.status = status,
                                        !.retries = IF status = "failed"
                                                    THEN chunks[k].retries + 1
                                                    ELSE chunks[k].retries]
               ELSE chunks'[k] = chunks[k]
          /\ index \notin ChunkIndices => chunks' = chunks
    ]_vars

\* A chunk was set to failed twice and another chunk to completed.
C33_Witness ==
  /\ returned.op = "updateChunkStatus"
  /\ \E k \in 1..Len(chunks) : chunks[k].status = "failed" /\ chunks[k].retries = 2
  /\ \E k \in 1..Len(chunks) : chunks[k].status = "completed" /\ chunks[k].retries = 0

\* ------------------------------------------------------------------ C34
\* C34: getPendingChunks(excludeIndices) returns the indices of exactly the
\* chunks whose status is pending and whose index is not excluded, in
\* strictly ascending order, and leaves the table as it was.
C34_PendingChunksExact ==
  [][returned'.op = "getPendingChunks" =>
       LET value == returned'.value
       IN /\ chunks' = chunks
          /\ SeqToSet(value)
               = {chunks[k].index : k \in {j \in 1..Len(chunks) :
                    /\ chunks[j].status = "pending"
                    /\ chunks[j].index \notin SeqToSet(returned'.exclude)}}
          /\ \A k \in 1..(Len(value) - 1) : value[k] < value[k + 1]
    ]_vars

\* The call excluded a pending chunk and returned another one, from a table
\* that also has a failed and a completed chunk.
C34_Witness ==
  /\ returned.op = "getPendingChunks"
  /\ Len(returned.value) > 0
  /\ \E k \in 1..Len(chunks) :
       chunks[k].status = "pending" /\ chunks[k].index \in SeqToSet(returned.exclude)
  /\ \E k \in 1..Len(chunks) : chunks[k].status = "failed"
  /\ \E k \in 1..Len(chunks) : chunks[k].status = "completed"

\* ------------------------------------------------------------------ C35
\* The chunk indices waiting in a queue or being uploaded, with repetitions
Scheduled == retryQueue \o pendingChunks \o [k \in 1..Len(inflight) |-> inflight[k].index]

\* C35: in every state in which a chunk upload is in flight, each chunk
\* index appears at most once in the retry queue, the pending queue and the
\* in-flight uploads taken together.
C35_NoChunkScheduledTwice ==
  inflight # <<>> =>
    \A j, k \in 1..Len(Scheduled) : Scheduled[j] = Scheduled[k] => j = k

\* ------------------------------------------------------------------ C36
\* C36: in every state the retry count of every chunk is at most maxRetries.
C36_RetriesBounded ==
  \A k \in 1..Len(chunks) : chunks[k].retries <= MaxRetries

\* ------------------------------------------------------------------ C37
\* The number of times onSuccess was invoked since start()
SuccessCount ==
  LET sum[c \in 0..MaxChains] ==
        chains[c].nSuccess + (IF c = 0 THEN 0 ELSE sum[c - 1])
  IN sum[MaxChains]

\* C37: over the whole lifetime of one start(), a pause()/resume() cycle
\* included, onSuccess is invoked at most once.  Stated for the sessions
\* whose only disturbances are one pause() that cancelled a chunk upload
\* and the resume() that followed it.
C37_OnSuccessAtMostOnce ==
  (/\ nInputs = 2
   /\ nResume = 1
   /\ ~aborted
   /\ \E k \in 1..Len(chunks) : chunks[k].retries > 0)
     => SuccessCount <= 1

\* ------------------------------------------------------------------ C38
\* The states of a promise chain in which it awaits a transport call
AwaitsTransport == {"init", "check", "merge", "mergeComplete"}

\* C38: after abort() (here: in a session that was never paused) no promise
\* chain issues initUpload, checkProgress or mergeChunks, and no chunk
\* upload is started.
C38_NoTransportAfterAbort ==
  [][(aborted /\ nResume = 0 /\ ~paused) =>
       /\ ~UploadStarted
       /\ \A c \in 0..MaxChains :
            chains'[c].pc \in AwaitsTransport => chains'[c].pc = chains[c].pc
    ]_vars

\* ------------------------------------------------------------------ C39
\* C39: in a session that is not aborted, every progress query and merge
\* request a promise chain is waiting for, and every chunk upload in
\* flight, was issued with an uploadId that is not null.
C39_RequestsCarryUploadId ==
  ~aborted =>
    /\ \A c \in 0..MaxChains :
         chains[c].pc \in {"check", "merge", "mergeComplete"} => chains[c].uploadId # NULL
    /\ \A k \in 1..Len(inflight) : inflight[k].uploadId # NULL

\* ------------------------------------------------------------------ C40
\* A step in which checkProgress rejects
CheckRejected == Len(events') > 0 /\ events'[1].cb = "console.error"

\* pendingChunks as prepareUploadQueue builds it from the table cs
LocalQueue(cs) ==
  getPendingChunks(cs, getCompletedIndices(cs)) \o getChunksToRetry(cs, MaxRetries)

\* C40: when checkProgress rejects in a session that is neither paused nor
\* aborted, the step invokes neither onError nor onSuccess and no chain
\* counts an error; the only chain that moves is the one that asked, and it
\* goes on to the upload loop or, with nothing left to upload, to the merge,
\* never to the completion that an isComplete answer gives; no chunk becomes completed or failed, and the only chunk whose
\* status changes is one whose upload the step starts; the pending queue is
\* built from the locally pending and retriable chunks, and the chunk
\* started, if any, is the head of the retry queue or of that pending queue.
C40_RejectedQueryIsEmptyAnswer ==
  [][(CheckRejected /\ ~paused /\ ~aborted) =>
       /\ TerminalCallbacks = {}
       /\ \A c \in 0..MaxChains :
            /\ chains'[c].nError = chains[c].nError
            /\ chains[c].pc # chains'[c].pc =>
                 chains[c].pc = "check" /\ chains'[c].pc \in {"loop", "merge"}
       /\ \A k \in 1..Len(chunks) :
            \/ chunks'[k] = chunks[k]
            \/ /\ UploadStarted
               /\ chunks[k].index = NewRequest.index
               /\ chunks'[k] = [chunks[k] EXCEPT !.status = "uploading"]
       /\ IF UploadStarted /\ retryQueue = <<>>
          THEN <<NewRequest.index>> \o pendingChunks' = LocalQueue(chunks)
          ELSE pendingChunks' = LocalQueue(chunks)
       /\ (UploadStarted /\ retryQueue # <<>>) => NewRequest.index = Head(retryQueue)
       /\ (~UploadStarted /\ activeConnections < Concurrent)
            => pendingChunks' = <<>> /\ retryQueue' = <<>>
    ]_vars

\* The progress query of start() was rejected and the first chunk is being
\* uploaded, the others waiting.
C40_Witness ==
  /\ Undisturbed
  /\ Len(events) = 1
  /\ events[1].cb = "console.error"
  /\ chains[0].pc = "loop"
  /\ Len(inflight) = 1
  /\ inflight[1].index = 0
  /\ pendingChunks # <<>>

====
